---- MODULE Spec2Model ----
(***************************************************************************)
(* Model of app.py: the Streamlit dashboard "Convocacoes da Base - Vasco". *)
(*                                                                         *)
(* Python strings are sequences of one-character strings, so that          *)
(* str.lower, str.strip, str.replace and str.contains are computed.        *)
(* A cell of a DataFrame or of a worksheet is a record [t, n, s]:          *)
(*   t = "int"   : the integer n                                           *)
(*   t = "float" : the number n/10, n not a multiple of 10 when the        *)
(*                 number is not integral                                  *)
(*   t = "str"   : the text s                                              *)
(*   t = "na"    : the missing marker (pd.NA / NaN)                        *)
(* A DataFrame is [columns |-> <<label,...>>, rows |-> <<row,...>>], a row *)
(* being a sequence of cells aligned with columns.                         *)
(***************************************************************************)
EXTENDS Integers, Sequences, FiniteSets, TLC

VARIABLES
  store,        \* the spreadsheet: tab name -> [exists, header, rows]
  conn_cache,   \* st.cache_resource entry of conectar_sheets
  ss,           \* st.session_state
  st_errors,    \* st.error messages of the current script run
  loads,        \* the last load_all_data call: its arguments and what it did
  last,         \* the position in the script run, the widget input that
                \* triggered it and the outcome of the last handler
  fd,           \* one call of fetch_data: arguments and result
  flt           \* one call of render_main_page: arguments and result

vars == <<store, conn_cache, ss, st_errors, loads, last, fd, flt>>

----------------------------------------------------------------------------
(* Strings                                                                 *)

UpperCase == <<"A","B","C","D","E","F","G","H","I","J","K","L","M",
               "N","O","P","Q","R","S","T","U","V","W","X","Y","Z">>
LowerCase == <<"a","b","c","d","e","f","g","h","i","j","k","l","m",
               "n","o","p","q","r","s","t","u","v","w","x","y","z">>

\* str.lower on one character
lower_char(c) ==
  IF \E i \in DOMAIN UpperCase : UpperCase[i] = c
  THEN LowerCase[CHOOSE i \in DOMAIN UpperCase : UpperCase[i] = c]
  ELSE c

\* str.lower
str_lower(s) == [i \in 1..Len(s) |-> lower_char(s[i])]

\* the characters str.strip removes
IsSpace(c) == c \in {" ", "\t", "\n"}

RECURSIVE str_lstrip(_)
str_lstrip(s) ==
  IF s = <<>> THEN s
  ELSE IF IsSpace(Head(s)) THEN str_lstrip(Tail(s)) ELSE s

RECURSIVE str_rstrip(_)
str_rstrip(s) ==
  IF s = <<>> THEN s
  ELSE IF IsSpace(s[Len(s)]) THEN str_rstrip(SubSeq(s, 1, Len(s) - 1)) ELSE s

\* str.strip
str_strip(s) == str_rstrip(str_lstrip(s))

\* str.replace(' ', '_')
str_replace_space(s) == [i \in 1..Len(s) |-> IF s[i] = " " THEN "_" ELSE s[i]]

----------------------------------------------------------------------------
(* Configuration constants                                                 *)

s_nome        == <<"n","o","m","e">>
s_ano         == <<"a","n","o">>
s_posicao     == <<"p","o","s","i","c","a","o">>
s_competicao  == <<"c","o","m","p","e","t","i","c","a","o">>
s_gols        == <<"g","o","l","s">>
s_minutagem   == <<"m","i","n","u","t","a","g","e","m">>
s_categoria   == <<"c","a","t","e","g","o","r","i","a">>
s_titulo      == <<"t","i","t","u","l","o">>
s_jogador     == <<"j","o","g","a","d","o","r">>
s_valor_de_mercado ==
  <<"v","a","l","o","r","_","d","e","_","m","e","r","c","a","d","o">>
s_contrato_ate == <<"c","o","n","t","r","a","t","o","_","a","t","e">>
s_link        == <<"l","i","n","k">>

JOGADORES_COLS ==
  <<s_nome, s_ano, s_posicao, s_competicao, s_gols, s_minutagem, s_categoria>>
TITULOS_COLS == <<s_categoria, s_titulo, s_ano>>
TRANSFERMARKT_COLS == <<s_jogador, s_valor_de_mercado, s_contrato_ate, s_link>>
NUMERIC_COLS == <<s_ano, s_gols, s_minutagem>>

Range(f) == {f[i] : i \in DOMAIN f}

----------------------------------------------------------------------------
(* Cells and frames                                                        *)

IntCell(n)   == [t |-> "int",   n |-> n, s |-> <<>>]
FloatCell(n) == [t |-> "float", n |-> n, s |-> <<>>]
StrCell(s)   == [t |-> "str",   n |-> 0, s |-> s]
NA           == [t |-> "na",    n |-> 0, s |-> <<>>]

\* pd.DataFrame(columns=cols)
EmptyFrame(cols) == [columns |-> cols, rows |-> <<>>]

\* the positions of label col in a column index
Positions(columns, col) == {i \in DOMAIN columns : columns[i] = col}

RECURSIVE SeqOfSet(_)
\* the increasing sequence of a set of positions
SeqOfSet(S) ==
  IF S = {} THEN <<>>
  ELSE LET m == CHOOSE x \in S : \A y \in S : x <= y
       IN <<m>> \o SeqOfSet(S \ {m})

RECURSIVE Flatten(_)
Flatten(ss_) == IF ss_ = <<>> THEN <<>> ELSE Head(ss_) \o Flatten(Tail(ss_))

\* df.iloc[:, idx] for a sequence of positions
TakeColumns(df, idx) ==
  [columns |-> [k \in 1..Len(idx) |-> df.columns[idx[k]]],
   rows    |-> [r \in 1..Len(df.rows) |->
                  [k \in 1..Len(idx) |-> df.rows[r][idx[k]]]]]

\* df[labels] for a list of labels: every column carrying each label, in the
\* order of the list (a label carried by two columns selects both)
SelectColumns(df, labels) ==
  TakeColumns(df, Flatten([k \in 1..Len(labels) |->
                             SeqOfSet(Positions(df.columns, labels[k]))]))

Digits == <<"0","1","2","3","4","5","6","7","8","9">>
IsDigit(c) == \E i \in DOMAIN Digits : Digits[i] = c
DigitVal(c) == (CHOOSE i \in DOMAIN Digits : Digits[i] = c) - 1

RECURSIVE DecVal(_)
\* the value of a string of digits
DecVal(s) ==
  IF s = <<>> THEN 0 ELSE 10 * DecVal(SubSeq(s, 1, Len(s) - 1)) + DigitVal(s[Len(s)])

\* pd.to_numeric(errors='coerce') on one value, for text made of letters,
\* digits, blanks and at most one digit after a decimal point: an integer
\* cell, a float cell, or NA for what does not parse
to_numeric(c) ==
  IF c.t \in {"int", "float", "na"} THEN c
  ELSE LET s == str_strip(c.s) IN
    IF s # <<>> /\ \A i \in DOMAIN s : IsDigit(s[i]) THEN IntCell(DecVal(s))
    ELSE IF Len(s) >= 3 /\ s[Len(s) - 1] = "."
            /\ \A i \in 1..Len(s) : i # Len(s) - 1 => IsDigit(s[i])
         THEN FloatCell(10 * DecVal(SubSeq(s, 1, Len(s) - 2)) + DigitVal(s[Len(s)]))
    ELSE NA

\* whether .astype('Int64') raises on a to_numeric result: a float that is
\* not integral cannot be cast safely
unsafe_cast(c) == c.t = "float" /\ c.n % 10 # 0

\* .astype('Int64') on one value that casts safely
astype_Int64(c) == IF c.t = "float" THEN IntCell(c.n \div 10) ELSE c

\* whether df[col] = pd.to_numeric(df[col], errors='coerce').astype('Int64')
\* raises: df[col] is a KeyError when no column carries the label, and a
\* DataFrame, which to_numeric rejects, when two do; or a value does not
\* cast safely
numeric_raises(df, col) ==
  \/ Cardinality(Positions(df.columns, col)) # 1
  \/ \E i \in Positions(df.columns, col) : \E r \in DOMAIN df.rows :
        unsafe_cast(to_numeric(df.rows[r][i]))

\* df[col] = pd.to_numeric(df[col], errors='coerce').astype('Int64') for
\* every col of cols that is a column of df, when none raises
coerce_numeric(df, cols) ==
  [df EXCEPT !.rows =
     [r \in 1..Len(df.rows) |->
        [i \in 1..Len(df.columns) |->
           IF df.columns[i] \in cols
           THEN astype_Int64(to_numeric(df.rows[r][i]))
           ELSE df.rows[r][i]]]]

----------------------------------------------------------------------------
(* fetch_data                                                              *)

\* df.drop(columns=['']) when '' is a column
drop_blank_column(df) ==
  IF <<>> \in Range(df.columns)
  THEN TakeColumns(df, SeqOfSet({i \in DOMAIN df.columns : df.columns[i] # <<>>}))
  ELSE df

\* df.columns.str.lower().str.strip().str.replace(' ', '_')
normalize_columns(df) ==
  [df EXCEPT !.columns =
     [i \in 1..Len(df.columns) |->
        str_replace_space(str_strip(str_lower(df.columns[i])))]]

\* for col in required_columns: if col not in df.columns: df[col] = pd.NA
add_missing_columns(df, required_columns) ==
  LET missing == SelectSeq(required_columns, LAMBDA c : c \notin Range(df.columns))
  IN [columns |-> df.columns \o missing,
      rows    |-> [r \in 1..Len(df.rows) |->
                     df.rows[r] \o [k \in 1..Len(missing) |-> NA]]]

\* list(set(NUMERIC_COLS + ['ano']))
extended_numeric_cols == Range(NUMERIC_COLS) \cup {s_ano}

\* a worksheet handle that is None (get_worksheet found no such tab)
None == [is_none |-> TRUE, title |-> "", header |-> <<>>, rows |-> <<>>]

\* a worksheet handle on a tab
Worksheet(title, header, rows) ==
  [is_none |-> FALSE, title |-> title, header |-> header, rows |-> rows]

\* fetch_data(worksheet, required_columns): the frame returned and whether
\* st.error was called. worksheet is None or a handle on a tab;
\* get_all_records gives one mapping per data row, keyed by the header.
fetch_data(worksheet, required_columns) ==
  IF worksheet = None
  THEN [df |-> EmptyFrame(required_columns), error |-> FALSE]
  ELSE IF worksheet.rows = <<>>
  THEN [df |-> EmptyFrame(required_columns), error |-> FALSE]
  ELSE
    LET df0 == [columns |-> worksheet.header, rows |-> worksheet.rows]
        df1 == drop_blank_column(df0)
        df2 == normalize_columns(df1)
        df3 == add_missing_columns(df2, required_columns)
        present == {c \in extended_numeric_cols : c \in Range(df3.columns)}
    IN IF \E c \in present : numeric_raises(df3, c)
       THEN [df |-> EmptyFrame(required_columns), error |-> TRUE]
       ELSE [df |-> SelectColumns(coerce_numeric(df3, present), required_columns),
             error |-> FALSE]

----------------------------------------------------------------------------
(* Specification of fetch_data alone: Init draws a worksheet and a column  *)
(* list, FetchData applies fetch_data to them.                             *)

MaxRows == 2

k_Nome    == <<"N","o","m","e">>
k_ANO     == <<" ","A","N","O"," ">>
k_blank   == <<>>
k_space   == <<" ">>
k_Gols    == <<"G","o","l","s">>
k_Valor   == <<"V","a","l","o","r"," ","d","e"," ","M","e","r","c","a","d","o">>

\* header cells of a tab, in several casings and spacings
RawKeys == {k_Nome, s_nome, k_ANO, s_ano, k_blank, k_space, k_Gols, k_Valor}

\* header rows: one or two distinct header cells
Headers ==
  {<<a>> : a \in RawKeys} \cup
  {p \in RawKeys \X RawKeys : p[1] # p[2]}

s_abc == <<"a","b","c">>

\* values get_all_records returns: an integer, a number that is not
\* integral (1.5), text, and '' for a blank cell
FetchCells == {IntCell(7), FloatCell(15), StrCell(s_abc), StrCell(<<>>)}

SeqsUpTo(S, n) == UNION {[1..k -> S] : k \in 0..n}

NoCall == [ws |-> None, req |-> <<>>, out |-> [df |-> EmptyFrame(<<>>), error |-> FALSE],
           done |-> FALSE]

Idle == "idle"

InitFetch ==
  /\ \E h \in Headers :
     \E rs \in SeqsUpTo([1..Len(h) -> FetchCells], MaxRows) :
     \E rq \in {JOGADORES_COLS, TITULOS_COLS, TRANSFERMARKT_COLS} :
       fd = [NoCall EXCEPT !.ws = Worksheet("Jogadores", h, rs), !.req = rq]
  /\ store = Idle /\ conn_cache = Idle /\ ss = Idle /\ st_errors = Idle
  /\ loads = Idle /\ last = Idle /\ flt = Idle

FetchData ==
  /\ ~fd.done
  /\ fd' = [fd EXCEPT !.out = fetch_data(fd.ws, fd.req), !.done = TRUE]
  /\ UNCHANGED <<store, conn_cache, ss, st_errors, loads, last, flt>>

NextFetch == FetchData

SpecFetch == InitFetch /\ [][NextFetch]_vars

----------------------------------------------------------------------------
(* render_sidebar_filters and the filtering of render_main_page            *)

s_Todas == <<"T","o","d","a","s">>

\* the cells of column label of a frame whose labels are distinct
Column(df, label) ==
  LET i == CHOOSE k \in DOMAIN df.columns : df.columns[k] = label
  IN [r \in 1..Len(df.rows) |-> df.rows[r][i]]

\* ["Todas"] + sorted(df[label].dropna().unique()), as the set of options
\* the selectbox offers
selectbox_options(df, label) ==
  {s_Todas} \cup {c.s : c \in {x \in Range(Column(df, label)) : x.t = "str"}}

\* what render_sidebar_filters returns for an empty frame
default_filtros ==
  [nome |-> <<>>, categoria |-> s_Todas, posicao |-> s_Todas, competicao |-> s_Todas]

\* re.compile fails on a pattern with an opening parenthesis that is never
\* closed; patterns here are made of letters, blanks, "." and "("
regex_invalid(pat) == \E i \in DOMAIN pat : pat[i] = "("

\* re.search(pat, s, re.IGNORECASE) for a valid pattern of letters, blanks
\* and ".": "." matches any character but a newline
regex_search(pat, s) ==
  \E i \in 0..(Len(s) - Len(pat)) :
    \A j \in 1..Len(pat) :
      \/ pat[j] = "." /\ s[i + j] # "\n"
      \/ pat[j] # "." /\ lower_char(pat[j]) = lower_char(s[i + j])

\* Series.str.contains(pat, case=False, na=False) on one value; regex=True
\* is the default
str_contains(c, pat) == c.t = "str" /\ regex_search(pat, c.s)

\* the value of a row in the column carrying a label
CellAt(df, row, label) ==
  row[CHOOSE k \in DOMAIN df.columns : df.columns[k] = label]

\* filter_nome without its test of the text: the mask is applied even for
\* the empty text
filter_nome_unguarded(df, filtros) ==
  [df EXCEPT !.rows = SelectSeq(df.rows, LAMBDA row :
     str_contains(CellAt(df, row, s_nome), filtros.nome))]

\* if filtros["nome"]: df_filtrado = df_filtrado[...str.contains(...)]
filter_nome(df, filtros) ==
  IF filtros.nome # <<>>
  THEN [df EXCEPT !.rows = SelectSeq(df.rows, LAMBDA row :
          str_contains(CellAt(df, row, s_nome), filtros.nome))]
  ELSE df

\* if filtros[label] != "Todas": df_filtrado = df_filtrado[df_filtrado[label] == filtros[label]]
filter_equal(df, label, value) ==
  IF value # s_Todas
  THEN [df EXCEPT !.rows = SelectSeq(df.rows, LAMBDA row :
          CellAt(df, row, label) = StrCell(value))]
  ELSE df

\* render_main_page up to df_filtrado: the filtered frame, or an exception
\* that leaves the script run
filtered(df_jogadores, filtros) ==
  IF df_jogadores.rows = <<>>
  THEN [df |-> df_jogadores, raised |-> FALSE]
  ELSE IF filtros.nome # <<>> /\ regex_invalid(filtros.nome)
  THEN [df |-> EmptyFrame(<<>>), raised |-> TRUE]
  ELSE [df |-> filter_equal(filter_equal(filter_equal(
                 filter_nome(df_jogadores, filtros),
                 s_categoria, filtros.categoria),
                 s_posicao, filtros.posicao),
                 s_competicao, filtros.competicao),
        raised |-> FALSE]

\* the values render_sidebar_filters can return for a frame
sidebar_filters(df_jogadores, texts) ==
  IF df_jogadores.rows = <<>> THEN {default_filtros}
  ELSE [nome : texts,
        categoria : selectbox_options(df_jogadores, s_categoria),
        posicao : selectbox_options(df_jogadores, s_posicao),
        competicao : selectbox_options(df_jogadores, s_competicao)]

----------------------------------------------------------------------------
(* Specification of the filter alone: Init draws the player frame,         *)
(* RenderMainPage reads the sidebar and filters.                           *)

MaxPlayers == 2

n_DaSilva  == <<"D","a"," ","S","i","l","v","a">>
n_SILVAJr  == <<"S","I","L","V","A"," ","J","r">>
n_Oliveira == <<"O","l","i","v","e","i","r","a">>
v_Sub20    == <<"S","u","b","-","2","0">>
v_Sub17    == <<"S","u","b","-","1","7">>
v_Atacante == <<"A","t","a","c","a","n","t","e">>
v_Goleiro  == <<"G","o","l","e","i","r","o">>
v_Mundial  == <<"M","u","n","d","i","a","l">>
v_Outro    == <<"O","u","t","r","o">>

\* rows of df_jogadores as fetch_data builds them, in JOGADORES_COLS
\* order: text or '' in the text columns, an integer or <NA> in the
\* numeric ones
PlayerRows == {
  <<StrCell(n_DaSilva), IntCell(2020), StrCell(v_Atacante), StrCell(v_Mundial),
    IntCell(3), IntCell(90), StrCell(v_Sub20)>>,
  <<StrCell(n_SILVAJr), IntCell(2021), StrCell(v_Goleiro), StrCell(v_Mundial),
    IntCell(0), NA, StrCell(v_Sub17)>>,
  <<StrCell(n_Oliveira), IntCell(2020), StrCell(v_Goleiro), StrCell(v_Outro),
    IntCell(1), IntCell(90), StrCell(v_Sub20)>>,
  <<StrCell(<<>>), NA, StrCell(<<>>), StrCell(v_Outro), NA, NA, StrCell(v_Sub17)>> }

\* the text columns the tab may lack: fetch_data fills such a column with
\* pd.NA in every row
MissingColumns == {{}, {s_nome}, {s_categoria}}

\* a frame whose columns of labels missing hold pd.NA
WithMissing(df, missing) ==
  [df EXCEPT !.rows =
     [r \in 1..Len(df.rows) |->
        [k \in 1..Len(df.columns) |->
           IF df.columns[k] \in missing THEN NA ELSE df.rows[r][k]]]]

f_silva == <<"s","i","l","v","a">>
f_SILVA == <<"S","I","L","V","A">>
f_a_S   == <<"a"," ","s">>
f_dot   == <<".">>
f_l_a   == <<"l",".","a">>
f_paren == <<"(">>
f_jr_paren == <<"J","r"," ","(">>

\* texts typed in the name box
NameTexts == {<<>>, f_silva, f_SILVA, f_a_S, f_dot, f_l_a, f_paren, f_jr_paren}

NoRender == [df |-> EmptyFrame(JOGADORES_COLS), filtros |-> default_filtros,
             out |-> [df |-> EmptyFrame(<<>>), raised |-> FALSE], done |-> FALSE]

InitFilter ==
  /\ \E rs \in SeqsUpTo(PlayerRows, MaxPlayers) : \E missing \in MissingColumns :
       flt = [NoRender EXCEPT
                !.df = WithMissing([columns |-> JOGADORES_COLS, rows |-> rs], missing)]
  /\ store = Idle /\ conn_cache = Idle /\ ss = Idle /\ st_errors = Idle
  /\ loads = Idle /\ last = Idle /\ fd = Idle

RenderMainPage ==
  /\ ~flt.done
  /\ \E filtros \in sidebar_filters(flt.df, NameTexts) :
       flt' = [flt EXCEPT !.filtros = filtros,
                          !.out = filtered(flt.df, filtros),
                          !.done = TRUE]
  /\ UNCHANGED <<store, conn_cache, ss, st_errors, loads, last, fd>>

NextFilter == RenderMainPage

SpecFilter == InitFilter /\ [][NextFilter]_vars

----------------------------------------------------------------------------
(* The spreadsheet, the cached connection and st.session_state             *)

TabNames == {"Jogadores", "Titulos", "Transfermarkt"}

\* conectar_sheets under st.cache_resource: the cached value when there is
\* one, else a new attempt whose result (the spreadsheet, or None after
\* st.error) is cached
conectar_sheets(cache, ok) ==
  IF cache # "empty" THEN [result |-> cache, cache |-> cache, errors |-> {}]
  ELSE IF ok THEN [result |-> "spreadsheet", cache |-> "spreadsheet", errors |-> {}]
  ELSE [result |-> "None", cache |-> "None", errors |-> {"conexao"}]

\* get_worksheet(spreadsheet, name): the name of the tab as its handle, or
\* "None" when WorksheetNotFound is caught
get_worksheet(st, name) == IF st[name].exists THEN name ELSE "None"

\* the worksheet a handle gives access to
ws_of(st, handle) ==
  IF handle = "None" THEN None
  ELSE Worksheet(handle, st[handle].header, st[handle].rows)

\* st.session_state of a new session
NewSession ==
  [keys |-> {}, jogadores_ws |-> "None", titulos_ws |-> "None",
   transfermarkt_ws |-> "None",
   df_jogadores |-> EmptyFrame(<<>>), df_titulos |-> EmptyFrame(<<>>),
   df_transfermarkt |-> EmptyFrame(<<>>),
   admin_logged_in |-> FALSE, uploader_key_jogadores |-> 0,
   uploader_key_titulos |-> 0, senha |-> "empty"]

\* load_skipped that ignores force_refresh
load_skipped_ignoring_force(s, force_refresh) == "data_loaded" \in s.keys

\* load_all_data's early return
load_skipped(s, force_refresh) == "data_loaded" \in s.keys /\ ~force_refresh

\* load_unreachable that keeps the frames of the session
load_unreachable_keep(s) == s

\* load_all_data when conectar_sheets returned None
load_unreachable(s) ==
  [s EXCEPT !.keys = @ \cup {"df_jogadores", "df_titulos", "df_transfermarkt"},
            !.df_jogadores = EmptyFrame(JOGADORES_COLS),
            !.df_titulos = EmptyFrame(TITULOS_COLS),
            !.df_transfermarkt = EmptyFrame(TRANSFERMARKT_COLS)]

\* load_all_data(force_refresh): the session, the connection cache, the
\* errors shown, whether the read path ran and whether it connected
load_all_data(s, cache, st, force_refresh, ok) ==
  IF load_skipped(s, force_refresh)
  THEN [ss |-> s, cache |-> cache, errors |-> {}, read |-> FALSE, connected |-> FALSE]
  ELSE
    LET c == conectar_sheets(cache, ok) IN
    IF c.result = "spreadsheet"
    THEN
      LET jw == get_worksheet(st, "Jogadores")
          tw == get_worksheet(st, "Titulos")
          mw == get_worksheet(st, "Transfermarkt")
          fj == fetch_data(ws_of(st, jw), JOGADORES_COLS)
          ft == fetch_data(ws_of(st, tw), TITULOS_COLS)
          fm == fetch_data(ws_of(st, mw), TRANSFERMARKT_COLS)
      IN [ss |-> [s EXCEPT
                    !.keys = @ \cup {"jogadores_ws", "titulos_ws", "transfermarkt_ws",
                                     "df_jogadores", "df_titulos", "df_transfermarkt",
                                     "data_loaded"},
                    !.jogadores_ws = jw, !.titulos_ws = tw, !.transfermarkt_ws = mw,
                    !.df_jogadores = fj.df, !.df_titulos = ft.df,
                    !.df_transfermarkt = fm.df],
          cache |-> c.cache,
          errors |-> c.errors
                     \cup (IF fj.error THEN {"processar_aba_Jogadores"} ELSE {})
                     \cup (IF ft.error THEN {"processar_aba_Titulos"} ELSE {})
                     \cup (IF fm.error THEN {"processar_aba_Transfermarkt"} ELSE {}),
          read |-> TRUE, connected |-> TRUE]
    ELSE
      [ss |-> load_unreachable(s),
       cache |-> c.cache, errors |-> c.errors, read |-> TRUE, connected |-> FALSE]

\* authenticate_admin: the password box against the admin password
authenticate_admin(s) ==
  [s EXCEPT !.keys = @ \cup {"admin_logged_in"},
            !.admin_logged_in = (s.senha = "correct")]

----------------------------------------------------------------------------
(* Bulk import (render_admin_tools)                                        *)

\* df_novos.columns.str.lower().str.strip()
normalize_csv_columns(df) ==
  [df EXCEPT !.columns =
     [i \in 1..Len(df.columns) |-> str_strip(str_lower(df.columns[i]))]]

\* has_required_columns with any() for all()
has_some_required_column(df, COLS) == \E col \in Range(COLS) : col \in Range(df.columns)

\* all(col in df_novos.columns for col in COLS)
has_required_columns(df, COLS) == \A col \in Range(COLS) : col \in Range(df.columns)

\* df.reindex(columns=COLS, fill_value='') raises on duplicate labels
reindex_raises(df) == \E i, j \in DOMAIN df.columns : i # j /\ df.columns[i] = df.columns[j]

\* df.reindex(columns=COLS, fill_value='') on distinct labels
reindex(df, COLS) ==
  [columns |-> COLS,
   rows |-> [r \in 1..Len(df.rows) |->
               [k \in 1..Len(COLS) |->
                  IF COLS[k] \in Range(df.columns)
                  THEN CellAt(df, df.rows[r], COLS[k])
                  ELSE StrCell(<<>>)]]]

\* whether df.fillna('') raises: '' cannot be set into a column of dtype
\* Int64, so a missing value in one of the columns int64 (the columns the
\* handler cast with astype('Int64')) is a TypeError
fillna_raises(df, int64) ==
  \E r \in DOMAIN df.rows : \E k \in DOMAIN df.columns :
     df.columns[k] \in int64 /\ df.rows[r][k].t = "na"

\* df.fillna('') when it does not raise
fillna_blank(df) ==
  [df EXCEPT !.rows =
     [r \in 1..Len(df.rows) |->
        [k \in 1..Len(df.columns) |->
           IF df.rows[r][k].t = "na" THEN StrCell(<<>>) ELSE df.rows[r][k]]]]

\* what a cell holds after append_rows(value_input_option='USER_ENTERED'),
\* as get_all_records reads it back: text made of digits is a number
user_entered(c) ==
  IF c.t = "str" /\ c.s # <<>> /\ \A i \in DOMAIN c.s : IsDigit(c.s[i])
  THEN IntCell(DecVal(c.s)) ELSE c

\* worksheet.append_rows(lista, value_input_option='USER_ENTERED')
append_rows(st, name, lista) ==
  [st EXCEPT ![name].rows =
     @ \o [r \in 1..Len(lista) |-> [k \in 1..Len(lista[r]) |-> user_entered(lista[r][k])]]]

\* adicionar_jogadores_massa / adicionar_titulos_massa on the frame df_novos
\* whose columns int64 have dtype Int64: whether the rows were sent (True)
\* or an exception of reindex, fillna or append_rows was caught and
\* st.error called (False), and the rows sent
adicionar_massa(COLS, int64, handle, df_novos, append_ok) ==
  IF reindex_raises(df_novos) THEN [ok |-> FALSE, lista |-> <<>>]
  ELSE IF fillna_raises(reindex(df_novos, COLS), int64)
  THEN [ok |-> FALSE, lista |-> <<>>]
  ELSE IF handle = "None" \/ ~append_ok THEN [ok |-> FALSE, lista |-> <<>>]
  ELSE [ok |-> TRUE, lista |-> fillna_blank(reindex(df_novos, COLS)).rows]

\* adicionar_jogadores_massa(worksheet, df_novos), df_novos being the frame
\* of the handler: NUMERIC_COLS are Int64
adicionar_jogadores_massa(handle, df_novos, append_ok) ==
  adicionar_massa(JOGADORES_COLS, Range(NUMERIC_COLS), handle, df_novos, append_ok)

\* adicionar_titulos_massa(worksheet, df_novos), df_novos being the frame of
\* the handler: ano is Int64
adicionar_titulos_massa(handle, df_novos, append_ok) ==
  adicionar_massa(TITULOS_COLS, {s_ano}, handle, df_novos, append_ok)

\* adicionar_titulo(worksheet, categoria, titulo, ano): whether append_row
\* sent the row (True) or st.error was called (False), and the row
adicionar_titulo(handle, categoria, titulo, ano, append_ok) ==
  IF handle = "None" \/ ~append_ok THEN [ok |-> FALSE, lista |-> <<>>]
  ELSE [ok |-> TRUE,
        lista |-> << <<StrCell(categoria), StrCell(titulo), IntCell(ano)>> >>]

\* the handler of "Salvar Novo Titulo" up to the reload; ano = 0 stands for
\* the empty number box (None):
\*   "warning" : a field is empty or the session has no titulos_ws
\*   "titulo"  : adicionar_titulo returned False after st.error
\*   "ok"      : the row was appended
salvar_titulo(categoria, titulo, ano, s, append_ok) ==
  IF titulo # <<>> /\ categoria # <<>> /\ ano # 0
     /\ "titulos_ws" \in s.keys /\ s.titulos_ws # "None"
  THEN LET sent == adicionar_titulo(s.titulos_ws, categoria, titulo, ano, append_ok)
       IN IF sent.ok THEN [outcome |-> "ok", lista |-> sent.lista]
          ELSE [outcome |-> "titulo", lista |-> <<>>]
  ELSE [outcome |-> "warning", lista |-> <<>>]

\* the try block of a bulk import up to the call of adicionar_*_massa:
\*   "csv_columns" : a required column is missing (st.error, else branch)
\*   "processar"   : an exception caught by the handler's except clause
\*   "enviar"      : adicionar_*_massa returned False after st.error
\*   "ok"          : the rows were appended
bulk_import(COLS, numeric, csv, ws_key, s, append_ok) ==
  LET df_novos == normalize_csv_columns(csv) IN
  IF ~has_required_columns(df_novos, COLS)
  THEN [outcome |-> "csv_columns", lista |-> <<>>]
  ELSE IF \E col \in Range(numeric) : numeric_raises(df_novos, col)
  THEN [outcome |-> "processar", lista |-> <<>>]
  ELSE IF ws_key \notin s.keys
  THEN [outcome |-> "processar", lista |-> <<>>]
  ELSE
    LET coerced == coerce_numeric(df_novos, Range(numeric))
        sent == IF ws_key = "jogadores_ws"
                THEN adicionar_jogadores_massa(s.jogadores_ws, coerced, append_ok)
                ELSE adicionar_titulos_massa(s.titulos_ws, coerced, append_ok)
    IN IF sent.ok THEN [outcome |-> "ok", lista |-> sent.lista]
       ELSE [outcome |-> "enviar", lista |-> <<>>]

\* after_jogadores with the batch concatenated to the frame of the session
\* whatever adicionar_jogadores_massa returned
after_jogadores_optimistic(s, sent_ok, df_novos) ==
  LET s1 == [s EXCEPT !.df_jogadores.rows = @ \o df_novos.rows] IN
  IF sent_ok
  THEN [s1 EXCEPT !.keys = @ \cup {"uploader_key_jogadores"},
                  !.uploader_key_jogadores = @ + 1]
  ELSE s1

\* the session after adicionar_jogadores_massa returned, before the reload:
\* on True the uploader key is advanced, on False nothing is written
after_jogadores(s, sent_ok, df_novos) ==
  IF sent_ok
  THEN [s EXCEPT !.keys = @ \cup {"uploader_key_jogadores"},
                 !.uploader_key_jogadores = @ + 1]
  ELSE s

\* the same for adicionar_titulos_massa
after_titulos(s, sent_ok, df_novos) ==
  IF sent_ok
  THEN [s EXCEPT !.keys = @ \cup {"uploader_key_titulos"},
                 !.uploader_key_titulos = @ + 1]
  ELSE s

----------------------------------------------------------------------------
(* Specification of one session: script runs of main()                     *)

MaxStoreRows == 2
MaxTitulos == 1

k_obs == <<"o","b","s">>

\* header row of the tab Jogadores
JogadoresHeader ==
  <<k_Nome, k_ANO, s_posicao, s_competicao, k_Gols, s_minutagem, s_categoria>>

\* header row of the tab Transfermarkt
TransfermarktHeader == <<s_jogador, k_Valor, s_contrato_ate, s_link>>

AbsentTab == [exists |-> FALSE, header |-> <<>>, rows |-> <<>>]

Tab(header, rows) == [exists |-> TRUE, header |-> header, rows |-> rows]

row_DaSilva ==
  <<StrCell(n_DaSilva), IntCell(2020), StrCell(v_Atacante), StrCell(v_Mundial),
    IntCell(3), IntCell(90), StrCell(v_Sub20)>>
row_SILVAJr ==
  <<StrCell(n_SILVAJr), IntCell(2021), StrCell(v_Goleiro), StrCell(v_Mundial),
    IntCell(0), NA, StrCell(v_Sub17)>>
row_half ==
  <<StrCell(n_Oliveira), IntCell(2021), StrCell(v_Goleiro), StrCell(v_Outro),
    FloatCell(15), IntCell(45), StrCell(v_Sub17)>>
row_noPos ==
  <<StrCell(n_Oliveira), IntCell(2021), NA, StrCell(v_Outro),
    IntCell(1), IntCell(45), StrCell(v_Sub17)>>

\* player rows of an uploaded CSV as pd.read_csv gives them, by
\* JOGADORES_COLS: complete, with a missing minutagem, with 1.5 in gols,
\* with a missing posicao
CsvPlayers == {row_DaSilva, row_SILVAJr, row_half, row_noPos}

\* header rows of an uploaded player CSV: the template in another casing,
\* the columns in another order with one more column, gols missing
CsvHeaders == {
  JogadoresHeader,
  <<k_Gols, s_categoria, s_minutagem, k_obs, s_competicao, s_posicao, k_ANO, k_Nome>>,
  <<k_Nome, k_ANO, s_posicao, s_competicao, s_minutagem, s_categoria>> }

\* the index of a label in a sequence of distinct labels
IndexOf(seq, x) == CHOOSE k \in DOMAIN seq : seq[k] = x

\* the CSV frame of header h holding the player rows ps
CsvFrame(h, ps) ==
  [columns |-> h,
   rows |-> [r \in 1..Len(ps) |->
               [k \in 1..Len(h) |->
                  LET lab == str_strip(str_lower(h[k])) IN
                  IF lab \in Range(JOGADORES_COLS)
                  THEN ps[r][IndexOf(JOGADORES_COLS, lab)]
                  ELSE StrCell(s_abc)]]]

\* the uploaded player CSVs of at most n rows, the rows of a CSV being
\* different players
CsvBatches(n) ==
  {CsvFrame(h, ps) : h \in CsvHeaders,
                     ps \in UNION {{q \in [1..k -> CsvPlayers] :
                                      \A i, j \in 1..k : q[i] = q[j] => i = j}
                                   : k \in 1..n}}

v_Copa == <<"C","o","p","a">>

\* uploaded title CSVs: one title, complete, with the ano cell empty, and
\* without the column ano
CsvTitulos == {
  [columns |-> TITULOS_COLS,
   rows |-> << <<StrCell(v_Sub20), StrCell(v_Copa), IntCell(2020)>> >>],
  [columns |-> TITULOS_COLS,
   rows |-> << <<StrCell(v_Sub20), StrCell(v_Copa), NA>> >>],
  [columns |-> <<s_categoria, s_titulo>>,
   rows |-> << <<StrCell(v_Sub20), StrCell(v_Copa)>> >>] }

NoLoad == [called |-> FALSE, force |-> FALSE, read |-> FALSE, connected |-> FALSE]

LoadCall(force, r) ==
  [called |-> TRUE, force |-> force, read |-> r.read, connected |-> r.connected]

NoCsv == EmptyFrame(<<>>)

Init ==
  /\ \E ej, et, em \in BOOLEAN : \E rows \in {<<>>, <<row_DaSilva>>} :
       store = [Jogadores |-> IF ej THEN Tab(JogadoresHeader, rows) ELSE AbsentTab,
                Titulos |-> IF et THEN Tab(TITULOS_COLS, <<>>) ELSE AbsentTab,
                Transfermarkt |->
                  IF em THEN Tab(TransfermarktHeader,
                                 << <<StrCell(n_DaSilva), IntCell(7), StrCell(<<>>),
                                      StrCell(s_abc)>> >>)
                  ELSE AbsentTab]
  /\ conn_cache = "empty"
  /\ ss = NewSession
  /\ st_errors = {}
  /\ loads = NoLoad
  /\ last = [pc |-> "idle", widget |-> "none", outcome |-> "none", csv |-> NoCsv]
  /\ fd = Idle /\ flt = Idle

\* the widget interactions that can trigger a script run
Widgets(s, st) ==
  {"none", "senha", "refresh"}
  \cup (IF s.admin_logged_in /\ Len(st["Jogadores"].rows) < MaxStoreRows
        THEN {"import_jogadores"} ELSE {})
  \cup (IF s.admin_logged_in /\ Len(st["Titulos"].rows) < MaxTitulos
        THEN {"salvar_titulo", "import_titulos"} ELSE {})

\* main() up to load_all_data(): a widget interaction, or st.rerun(), starts
\* the script
StartRun ==
  /\ last.pc \in {"idle", "rerun"}
  /\ \E w \in (IF last.pc = "rerun" THEN {"none"} ELSE Widgets(ss, store)) :
     \E typed \in {"empty", "correct", "wrong"} :
     \E ok \in BOOLEAN :
       LET s0 == IF w = "senha" THEN [ss EXCEPT !.senha = typed] ELSE ss
           r == load_all_data(s0, conn_cache, store, FALSE, ok)
       IN /\ w = "senha" => typed # ss.senha
          /\ w # "senha" => typed = ss.senha
          /\ ss' = r.ss
          /\ conn_cache' = r.cache
          /\ st_errors' = r.errors
          /\ loads' = LoadCall(FALSE, r)
          /\ last' = [pc |-> "main", widget |-> w, outcome |-> "none", csv |-> NoCsv]
  /\ UNCHANGED <<store, fd, flt>>

\* main(): the button "Atualizar Dados da Planilha"
RefreshButton ==
  /\ last.pc = "main" /\ last.widget = "refresh"
  /\ \E ok \in BOOLEAN :
       LET r == load_all_data(ss, conn_cache, store, TRUE, ok)
       IN /\ ss' = r.ss
          /\ conn_cache' = r.cache
          /\ st_errors' = st_errors \cup r.errors
          /\ loads' = LoadCall(TRUE, r)
  /\ last' = [last EXCEPT !.pc = "rerun", !.outcome = "refreshed"]
  /\ UNCHANGED <<store, fd, flt>>

\* main(): authenticate_admin() and render_main_page(); the admin tools
\* follow when admin_logged_in
Authenticate ==
  /\ last.pc = "main" /\ last.widget # "refresh"
  /\ ss' = authenticate_admin(ss)
  /\ last' = [last EXCEPT !.pc = IF ss'.admin_logged_in THEN "admin" ELSE "idle"]
  /\ loads' = NoLoad
  /\ UNCHANGED <<store, conn_cache, st_errors, fd, flt>>

\* render_admin_tools() when none of its buttons was pressed
AdminTools ==
  /\ last.pc = "admin"
  /\ last.widget \notin {"import_jogadores", "salvar_titulo", "import_titulos"}
  /\ last' = [last EXCEPT !.pc = "idle"]
  /\ loads' = NoLoad
  /\ UNCHANGED <<store, conn_cache, ss, st_errors, fd, flt>>

\* the rest of a bulk import handler: on "ok" the rows are in the tab, the
\* uploader key advances, load_all_data(force_refresh=True) and st.rerun()
FinishImport(name, res, s1, csv, ok) ==
  IF res.outcome = "ok"
  THEN LET st1 == append_rows(store, name, res.lista)
           r == load_all_data(s1, conn_cache, st1, TRUE, ok)
       IN /\ store' = st1
          /\ ss' = r.ss
          /\ conn_cache' = r.cache
          /\ st_errors' = st_errors \cup r.errors
          /\ loads' = LoadCall(TRUE, r)
          /\ last' = [last EXCEPT !.pc = "rerun", !.outcome = "ok", !.csv = csv]
  ELSE /\ store' = store
       /\ ss' = s1
       /\ conn_cache' = conn_cache
       /\ st_errors' = st_errors \cup {res.outcome}
       /\ loads' = NoLoad
       /\ last' = [last EXCEPT !.pc = "idle", !.outcome = res.outcome, !.csv = csv]

\* render_admin_tools(): "Enviar e Adicionar Jogadores"
ImportJogadores ==
  /\ last.pc = "admin" /\ last.widget = "import_jogadores"
  /\ \E csv \in CsvBatches(MaxStoreRows - Len(store["Jogadores"].rows)) :
     \E append_ok, ok \in BOOLEAN :
       LET res == bulk_import(JOGADORES_COLS, NUMERIC_COLS, csv, "jogadores_ws", ss,
                              append_ok)
       IN FinishImport("Jogadores", res,
                       after_jogadores(ss, res.outcome = "ok", csv), csv, ok)
  /\ UNCHANGED <<fd, flt>>

\* the texts and the year typed in the boxes of "Adicionar Titulo
\* Individual"
TituloTexts == {<<>>, v_Copa}
CategoriaTexts == {<<>>, v_Sub20}
TituloAnos == {0, 2020}

\* render_admin_tools(): "Salvar Novo Titulo"; on "ok" the row is in the
\* tab, load_all_data(force_refresh=True) and st.rerun()
SalvarTitulo ==
  /\ last.pc = "admin" /\ last.widget = "salvar_titulo"
  /\ \E categoria \in CategoriaTexts : \E titulo \in TituloTexts :
     \E ano \in TituloAnos : \E append_ok, ok \in BOOLEAN :
       LET res == salvar_titulo(categoria, titulo, ano, ss, append_ok) IN
       IF res.outcome = "ok"
       THEN LET st1 == append_rows(store, "Titulos", res.lista)
                r == load_all_data(ss, conn_cache, st1, TRUE, ok)
            IN /\ store' = st1
               /\ ss' = r.ss
               /\ conn_cache' = r.cache
               /\ st_errors' = st_errors \cup r.errors
               /\ loads' = LoadCall(TRUE, r)
               /\ last' = [last EXCEPT !.pc = "rerun", !.outcome = "ok"]
       ELSE /\ st_errors' = IF res.outcome = "titulo"
                            THEN st_errors \cup {"titulo"} ELSE st_errors
            /\ loads' = NoLoad
            /\ last' = [last EXCEPT !.pc = "idle", !.outcome = res.outcome]
            /\ UNCHANGED <<store, ss, conn_cache>>
  /\ UNCHANGED <<fd, flt>>

\* render_admin_tools(): "Enviar e Adicionar Titulos"
ImportTitulos ==
  /\ last.pc = "admin" /\ last.widget = "import_titulos"
  /\ \E csv \in CsvTitulos : \E append_ok, ok \in BOOLEAN :
       LET res == bulk_import(TITULOS_COLS, <<s_ano>>, csv, "titulos_ws", ss, append_ok)
       IN FinishImport("Titulos", res,
                       after_titulos(ss, res.outcome = "ok", csv), csv, ok)
  /\ UNCHANGED <<fd, flt>>

\* the ttl of st.cache_resource passes: the cached connection is dropped
CacheExpire ==
  /\ conn_cache # "empty"
  /\ conn_cache' = "empty"
  /\ loads' = NoLoad
  /\ UNCHANGED <<store, ss, st_errors, last, fd, flt>>

Next ==
  \/ StartRun
  \/ RefreshButton
  \/ Authenticate
  \/ AdminTools
  \/ ImportJogadores
  \/ SalvarTitulo
  \/ ImportTitulos
  \/ CacheExpire

Spec == Init /\ [][Next]_vars

----------------------------------------------------------------------------
(* Properties of fetch_data (SpecFetch)                                    *)

\* the rows get_all_records gave, under the normalised labels
FetchSource == normalize_columns(drop_blank_column(
                 [columns |-> fd.ws.header, rows |-> fd.ws.rows]))

DistinctLabels(columns) ==
  \A i, j \in DOMAIN columns : columns[i] = columns[j] => i = j

\* C1: for every non-empty sequence of raw rows, with keys in any casing
\* and spacing (keys that normalise to the same label or to the empty
\* string included), the frame fetch_data returns has exactly the columns
\* required_columns, each once, in that order.
C1_ExactColumns ==
  (fd.done /\ fd.ws.rows # <<>>) => fd.out.df.columns = fd.req

\* C2: a value of a numeric column that is not an integer (text, blank, a
\* number that is not integral) becomes the missing marker, fetch_data
\* reports no error, and every other row and value of the batch is kept.
\* Stated for batches of two rows or more whose labels stay distinct.
C2_MalformedValueOnly ==
  (fd.done /\ Len(fd.ws.rows) >= 2 /\ DistinctLabels(FetchSource.columns)) =>
    /\ ~fd.out.error
    /\ fd.out.df.columns = fd.req
    /\ Len(fd.out.df.rows) = Len(fd.ws.rows)
    /\ \A r \in DOMAIN fd.ws.rows : \A k \in DOMAIN fd.req :
         LET got == fd.out.df.rows[r][k] IN
         IF fd.req[k] \notin Range(FetchSource.columns) THEN got = NA
         ELSE LET c == CellAt(FetchSource, FetchSource.rows[r], fd.req[k]) IN
              IF fd.req[k] \in Range(NUMERIC_COLS)
              THEN got = (IF c.t = "int" THEN c ELSE NA)
              ELSE got = c

----------------------------------------------------------------------------
(* Properties of the filter (SpecFilter)                                   *)

\* whether text f occurs in the value c, letter case ignored
literal_contains(c, f) ==
  /\ c.t = "str"
  /\ \E i \in 0..(Len(c.s) - Len(f)) :
       \A j \in 1..Len(f) : lower_char(f[j]) = lower_char(c.s[i + j])

\* C5: with every filter at its no-filter value (empty name, "Todas" for
\* categoria, posicao and competicao) the filtered frame is the input
\* frame: same records, same order, same content.
C5_NoFilterIdentity ==
  (flt.done /\ flt.filtros = default_filtros) =>
    (~flt.out.raised /\ flt.out.df = flt.df)

\* C5 happens: no filter set on a frame of two different players read from
\* a tab without the column nome
C5_Witness ==
  /\ flt.done /\ flt.filtros = default_filtros
  /\ Len(flt.df.rows) >= 2 /\ flt.df.rows[1] # flt.df.rows[2]
  /\ \E r \in DOMAIN flt.df.rows : flt.df.rows[r][1] = NA
  /\ flt.out.df = flt.df

\* C6: for every non-empty name text f, a record passes the name filter
\* exactly when its nome contains f as a literal substring, letter case
\* ignored; a record without nome never passes; no text makes the filter
\* fail. Stated with the other filters at "Todas".
C6_LiteralSubstring ==
  (/\ flt.done /\ flt.filtros.nome # <<>> /\ flt.df.rows # <<>>
   /\ flt.filtros.categoria = s_Todas /\ flt.filtros.posicao = s_Todas
   /\ flt.filtros.competicao = s_Todas) =>
    /\ ~flt.out.raised
    /\ flt.out.df.rows =
         SelectSeq(flt.df.rows, LAMBDA row : literal_contains(row[1], flt.filtros.nome))

\* C7: for every combination of filter values the filtered frame is the
\* sub-sequence of the input records that satisfy all active predicates
\* (name: literal substring, letter case ignored; categoria, posicao,
\* competicao: equality), in the input order. The sidebar has no year
\* filter.
C7_Conjunction ==
  (flt.done /\ flt.df.rows # <<>>) =>
    /\ ~flt.out.raised
    /\ flt.out.df.rows =
         SelectSeq(flt.df.rows, LAMBDA row :
           /\ flt.filtros.nome # <<>> => literal_contains(row[1], flt.filtros.nome)
           /\ flt.filtros.categoria # s_Todas => row[7] = StrCell(flt.filtros.categoria)
           /\ flt.filtros.posicao # s_Todas => row[3] = StrCell(flt.filtros.posicao)
           /\ flt.filtros.competicao # s_Todas => row[4] = StrCell(flt.filtros.competicao))

----------------------------------------------------------------------------
(* Properties of a session (Spec)                                          *)

\* the step is the handler of "Enviar e Adicionar Jogadores"
IsImportJogadores == last.pc = "admin" /\ last.widget = "import_jogadores"

\* the step is the handler of "Enviar e Adicionar Titulos"
IsImportTitulos == last.pc = "admin" /\ last.widget = "import_titulos"

\* the labels of the uploaded CSV of the last import
CsvLabels(l) == Range(normalize_csv_columns(l.csv).columns)

\* C3: a player import whose CSV header, lower-cased and stripped, lacks a
\* column of JOGADORES_COLS is rejected in full: no row is appended to
\* the spreadsheet, df_jogadores of the session is unchanged, and the
\* error naming the expected columns is shown.
C3_MissingColumnRejected ==
  [][(IsImportJogadores /\ last'.pc # "admin"
      /\ \E col \in Range(JOGADORES_COLS) : col \notin CsvLabels(last'))
     => /\ store' = store
        /\ ss'.df_jogadores = ss.df_jogadores
        /\ last'.outcome = "csv_columns"
        /\ "csv_columns" \in st_errors']_vars

\* C3 happens: a CSV without gols was rejected in a session that holds
\* players read from a tab that holds rows
C3_Witness ==
  /\ last.widget = "import_jogadores" /\ last.outcome = "csv_columns"
  /\ s_gols \notin CsvLabels(last) /\ last.csv.rows # <<>>
  /\ ss.df_jogadores.rows # <<>>
  /\ store["Jogadores"].rows # <<>>

\* what a CSV value is in the tab: a missing value is a blank cell
SentCell(c) == IF c.t = "na" THEN StrCell(<<>>) ELSE c

\* C4: a player import of a valid batch of n rows whose append succeeds
\* grows the tab by exactly n rows and df_jogadores of the session by
\* exactly n rows, each appended row carrying its values in
\* JOGADORES_COLS order, also when the reload after the append cannot
\* reach the spreadsheet.
C4_ImportGrowsBothByN ==
  [][(IsImportJogadores /\ last'.outcome = "ok")
     => LET n == Len(last'.csv.rows)
            before == Len(store["Jogadores"].rows)
            df_novos == normalize_csv_columns(last'.csv)
        IN /\ Len(store'["Jogadores"].rows) = before + n
           /\ \A r \in 1..n : \A k \in DOMAIN JOGADORES_COLS :
                store'["Jogadores"].rows[before + r][k] =
                  SentCell(CellAt(df_novos, df_novos.rows[r], JOGADORES_COLS[k]))
           /\ Len(ss'.df_jogadores.rows) = Len(ss.df_jogadores.rows) + n]_vars

\* the frame of the session read from a tab, and its canonical columns
FrameOf(s, name) ==
  CASE name = "Jogadores" -> s.df_jogadores
    [] name = "Titulos" -> s.df_titulos
    [] name = "Transfermarkt" -> s.df_transfermarkt

ColsOf(name) ==
  CASE name = "Jogadores" -> JOGADORES_COLS
    [] name = "Titulos" -> TITULOS_COLS
    [] name = "Transfermarkt" -> TRANSFERMARKT_COLS

FrameKeys == {"df_jogadores", "df_titulos", "df_transfermarkt"}

\* C8: when conectar_sheets returns None, the read path ends without an
\* exception and the three frames of the session are empty with their
\* canonical columns; when get_worksheet returns None for a tab, the frame
\* of that tab is empty with its canonical columns and the frames of the
\* other tabs are what fetch_data gives for their own tabs.
C8_UnreachableOrAbsentTab ==
  [][(loads'.called /\ loads'.read)
     => /\ FrameKeys \subseteq ss'.keys
        /\ \A name \in TabNames :
             IF ~loads'.connected \/ ~store'[name].exists
             THEN FrameOf(ss', name) = EmptyFrame(ColsOf(name))
             ELSE FrameOf(ss', name) =
                    fetch_data(Worksheet(name, store'[name].header, store'[name].rows),
                               ColsOf(name)).df]_vars

\* C8 happens: a load connected, found no tab Titulos, and read players
\* and market data from the other two tabs
C8_Witness ==
  /\ loads.called /\ loads.read /\ loads.connected
  /\ ~store["Titulos"].exists
  /\ ss.df_titulos = EmptyFrame(TITULOS_COLS)
  /\ ss.df_jogadores.rows # <<>> /\ ss.df_transfermarkt.rows # <<>>

\* C9: in every script run, load_all_data runs its read path (calls
\* conectar_sheets and, connected, reads the tabs) exactly when
\* data_loaded is not in the session or force_refresh is passed; when it
\* does not, the frames and the worksheet handles of the session are
\* unchanged; data_loaded enters the session only in a load that
\* connected.
C9_LoadGuard ==
  [][/\ loads'.called =>
          (loads'.read <=> ("data_loaded" \notin ss.keys \/ loads'.force))
     /\ (loads'.called /\ ~loads'.read) =>
          /\ \A name \in TabNames : FrameOf(ss', name) = FrameOf(ss, name)
          /\ ss'.jogadores_ws = ss.jogadores_ws
          /\ ss'.titulos_ws = ss.titulos_ws
          /\ ss'.transfermarkt_ws = ss.transfermarkt_ws
          /\ store' = store
     /\ ("data_loaded" \in ss'.keys /\ "data_loaded" \notin ss.keys) =>
          (loads'.called /\ loads'.read /\ loads'.connected)]_vars

\* C9 happens: after a forced refresh re-read the tabs of a loaded
\* session, the rerun that follows skipped the read path, the tab having
\* grown since the first load
C9_Witness ==
  /\ loads.called /\ ~loads.read /\ ~loads.force
  /\ "data_loaded" \in ss.keys
  /\ last.pc = "main" /\ last.widget = "none"
  /\ Len(ss.df_jogadores.rows) >= 2

\* the frame a bulk import is about
ImportedFrame(s, l) == IF l.widget = "import_jogadores" THEN s.df_jogadores ELSE s.df_titulos

\* C10 as claimed: in a bulk import the batch is concatenated to the frame
\* of the session before the append to the spreadsheet is attempted, so
\* that after a failed append the frame holds the batch.
C10_OptimisticUpdate ==
  [][((IsImportJogadores \/ IsImportTitulos) /\ last'.outcome = "enviar")
     => Len(ImportedFrame(ss', last').rows) =
          Len(ImportedFrame(ss, last').rows) + Len(last'.csv.rows)]_vars

\* C10 as amended: a bulk import does not touch the frames of the session
\* before the append; when the append fails the failure is shown and the
\* session is exactly what it was before the handler ran.
C10_NoUpdateOnFailedAppend ==
  [][((IsImportJogadores \/ IsImportTitulos) /\ last'.outcome = "enviar")
     => /\ ss' = ss
        /\ "enviar" \in st_errors'
        /\ ~loads'.called]_vars

\* C10 happens: the append of a player batch failed in a session that
\* holds players
C10_Witness ==
  /\ last.widget = "import_jogadores" /\ last.outcome = "enviar"
  /\ last.csv.rows # <<>>
  /\ ss.jogadores_ws = "Jogadores"
  /\ ss.df_jogadores.rows # <<>>

====
